---- MODULE Spec2Model ----
(***************************************************************************)
(* ParallelSprintPlanningAgent (src/src/agents/parallel_sprint_planner.py) *)
(* as a state machine: one planner object, the calls made on it and the    *)
(* value each call returned.                                               *)
(*                                                                         *)
(* Numbers.  The code computes weights and durations in floating point.    *)
(* Here a track's weighted demand is kept times ten as an integer          *)
(* (priority multipliers 0.8, 1.0, 1.5 become 8, 10, 15) and a duration is *)
(* an exact fraction [num, den] in lowest terms.  The share of a track,    *)
(* int(complexity / total_complexity * available_processes), is computed   *)
(* in binary64 as the code computes it, where rounding can change it.      *)
(*                                                                         *)
(* MasterOrchestrator (src/src/orchestrators/master_orchestrator.py): the  *)
(* orchestrate_projects calls made on one orchestrator, the                *)
(* _process_project tasks they create on the event loop, the results they  *)
(* store, and the monitoring thread.  A task runs without interleaving up  *)
(* to the first await that suspends it.                                    *)
(***************************************************************************)
EXTENDS Integers, Sequences, FiniteSets, TLC

VARIABLES
    max_processes,        \* self.max_processes
    dependency_graph,     \* self.dependency_graph: a dict, kept in insertion order
    resource_allocation,  \* self.resource_allocation: track id -> allocation
    last,                 \* the latest call on a planner and what it returned
    prev,                 \* the call before it, when it had the same arguments
    monitoring,           \* what the latest monitor_sprint_execution returned
    projects,             \* orchestrate_projects: the sorted list `projects`, per call
    loop,                 \* orchestrate_projects: where its batch loop stands
    results,              \* orchestrate_projects: results['projects']
    async_tasks,          \* project id -> state of its _process_project task
    agent_pool,           \* self.agent_pool: available_agents and busy_agents
    active_projects,      \* self.active_projects
    current_utilization,  \* self.system_resources.current_utilization
    project_status,       \* project id -> project.status
    assigned_agents       \* project id -> what _assign_agents returned

planner_vars == <<max_processes, dependency_graph, resource_allocation, last, prev,
                  monitoring>>

orchestrator_vars == <<projects, loop, results, async_tasks, agent_pool, active_projects,
                       current_utilization, project_status, assigned_agents>>

vars == <<planner_vars, orchestrator_vars>>

----------------------------------------------------------------------------
(* Bounds of the inputs *)

\* total number of dependency entries in a task list (single planning run)
MaxEdges == 2
\* the same bound for the task lists of call sequences
SeqMaxEdges == 1
\* the dependency entries of the lists the level properties are checked over
LevelMaxEdges == 3

TaskIds == {"a", "b", "c"}
SeqTaskIds == {"a", "b"}
MaxProcessesValues == {40, 132, 1000}
SeqMaxProcessesValues == {196}

\* feature.get('complexity', 'medium'), feature.get('priority', 'medium'),
\* feature.get('effort', 5)
DefaultProfile == [complexity |-> "medium", priority |-> "medium", effort |-> 5]
CustomProfiles ==
    { [complexity |-> "high", priority |-> "high", effort |-> 8],
      [complexity |-> "low", priority |-> "low", effort |-> 2],
      [complexity |-> "high", priority |-> "low", effort |-> 3] }
\* in call sequences task "a" is high/high/8 and task "b" has the default profile
SeqProfile ==
    [id \in SeqTaskIds |->
        IF id = "a" THEN [complexity |-> "high", priority |-> "high", effort |-> 8]
        ELSE DefaultProfile]

----------------------------------------------------------------------------
(* Sequences and fractions *)

Range(s) == { s[i] : i \in DOMAIN s }

RECURSIVE GCD(_, _)
GCD(a, b) == IF b = 0 THEN a ELSE GCD(b, a % b)

Min(x, y) == IF x <= y THEN x ELSE y

Max(x, y) == IF x >= y THEN x ELSE y

Abs(x) == IF x < 0 THEN -x ELSE x

\* the fraction n/d (d # 0) in lowest terms, with a positive denominator
Frac(n, d) ==
    LET g == GCD(Abs(n), Abs(d))
        sign == IF d < 0 THEN -1 ELSE 1
    IN [num |-> sign * (n \div g), den |-> Abs(d) \div g]

Zero == [num |-> 0, den |-> 1]
One == [num |-> 1, den |-> 1]

FracAdd(x, y) == Frac(x.num * y.den + y.num * x.den, x.den * y.den)

FracLess(x, y) == x.num * y.den < y.num * x.den

FracMax(x, y) == IF FracLess(x, y) THEN y ELSE x

----------------------------------------------------------------------------
(* The dependency graph: a Python dict, i.e. a sequence of entries with     *)
(* pairwise distinct ids in insertion order.                                *)

Keys(graph) == { graph[i].id : i \in DOMAIN graph }

Entry(graph, id) == graph[CHOOSE i \in DOMAIN graph : graph[i].id = id]

\* self.dependency_graph[feature_id] = {...}: an existing key keeps its place
DictSetAppend(graph, entry) == Append(graph, entry)

DictSet(graph, entry) ==
    IF entry.id \in Keys(graph)
    THEN [i \in DOMAIN graph |-> IF graph[i].id = entry.id THEN entry ELSE graph[i]]
    ELSE Append(graph, entry)

GraphEntry(feature) ==
    [id |-> feature.id,
     dependencies |-> feature.dependencies,
     complexity |-> feature.complexity,
     priority |-> feature.priority,
     estimated_effort |-> feature.effort]

\* the loop of analyze_features over the features, as far as it writes the graph
RECURSIVE BuildGraph(_, _, _)
BuildGraph(graph, features, i) ==
    IF i > Len(features) THEN graph
    ELSE BuildGraph(DictSet(graph, GraphEntry(features[i])), features, i + 1)

----------------------------------------------------------------------------
(* analyze_features *)

\* the ids appended to independent_features (want = TRUE) or dependent_features
RECURSIVE SplitByDependencies(_, _, _)

\* every id is appended to both lists
SplitAll(features, i, want) == [k \in DOMAIN features |-> features[k].id]

SplitByDependencies(features, i, want) ==
    IF i > Len(features) THEN <<>>
    ELSE LET rest == SplitByDependencies(features, i + 1, want)
         IN IF (features[i].dependencies = <<>>) = want
            THEN <<features[i].id>> \o rest
            ELSE rest

\* dfs(node, visited, path) of _find_critical_path; every call passes path = []
RECURSIVE dfs(_, _, _, _)
RECURSIVE LongestSubpath(_, _, _, _, _)

\* the path through the first dependency is kept, not the longest one
FirstSubpath(graph, deps, i, visited, longest_subpath) ==
    IF deps = <<>> THEN longest_subpath ELSE dfs(graph, deps[1], visited, <<>>)

\* the loop over the dependencies of a node: the first longest subpath wins
LongestSubpath(graph, deps, i, visited, longest_subpath) ==
    IF i > Len(deps) THEN longest_subpath
    ELSE IF deps[i] \in visited
         THEN LongestSubpath(graph, deps, i + 1, visited, longest_subpath)
         ELSE LET subpath == dfs(graph, deps[i], visited, <<>>)
              IN LongestSubpath(graph, deps, i + 1, visited,
                                IF Len(subpath) > Len(longest_subpath)
                                THEN subpath ELSE longest_subpath)

dfs(graph, node, visited, path) ==
    IF node \in visited THEN path
    ELSE LET seen == visited \cup {node}
             here == Append(path, node)
         IN IF node \in Keys(graph)
            THEN here \o LongestSubpath(graph, Entry(graph, node).dependencies,
                                        1, seen, <<>>)
            ELSE here

\* the loop over the nodes of the graph: the first longest path wins
RECURSIVE LongestPath(_, _, _)

\* only the first node of the graph is a start
FirstNodePath(graph, i, longest_path) ==
    IF graph = <<>> THEN <<>> ELSE dfs(graph, graph[1].id, {}, <<>>)

LongestPath(graph, i, longest_path) ==
    IF i > Len(graph) THEN longest_path
    ELSE LET path == dfs(graph, graph[i].id, {}, <<>>)
         IN LongestPath(graph, i + 1,
                        IF Len(path) > Len(longest_path) THEN path ELSE longest_path)

_find_critical_path(graph) == LongestPath(graph, 1, <<>>)

\* what analyze_features returns, given the graph it has just written
Analysis(graph, features) ==
    LET independent == SplitByDependencies(features, 1, TRUE)
    IN [total_features |-> Len(features),
        independent_features |-> independent,
        dependent_features |-> SplitByDependencies(features, 1, FALSE),
        critical_path |-> _find_critical_path(graph),
        parallelism_score |-> IF Len(features) > 0
                              THEN Frac(Len(independent), Len(features))
                              ELSE Zero]

----------------------------------------------------------------------------
(* _topological_sort *)

\* in_degree[node] = 1 where in_degree[node] += 1 is meant
InDegreeOne(graph) ==
    [id \in Keys(graph) |-> IF Entry(graph, id).dependencies = <<>> THEN 0 ELSE 1]

\* in_degree[node] after the first loop: one for every dependency entry
InDegree(graph) ==
    [id \in Keys(graph) |-> Len(Entry(graph, id).dependencies)]

RECURSIVE Adjacency(_, _, _)

\* a node is appended to adjacency[dep] once, however often it lists dep
AdjacencyOnce(graph, dep, i) ==
    IF i > Len(graph) THEN <<>>
    ELSE (IF dep \in Range(graph[i].dependencies) THEN <<graph[i].id>> ELSE <<>>)
         \o Adjacency(graph, dep, i + 1)

\* adjacency[dep]: the nodes that list dep, in graph order, once per entry
Adjacency(graph, dep, i) ==
    IF i > Len(graph) THEN <<>>
    ELSE LET deps == graph[i].dependencies
             hits == SelectSeq(deps, LAMBDA d : d = dep)
         IN [k \in 1..Len(hits) |-> graph[i].id] \o Adjacency(graph, dep, i + 1)

\* every node starts in the queue
InitialQueueAll(graph, i) == [k \in DOMAIN graph |-> graph[k].id]

\* deque([node for node in self.dependency_graph if in_degree[node] == 0])
RECURSIVE InitialQueue(_, _)
InitialQueue(graph, i) ==
    IF i > Len(graph) THEN <<>>
    ELSE IF graph[i].dependencies = <<>>
         THEN <<graph[i].id>> \o InitialQueue(graph, i + 1)
         ELSE InitialQueue(graph, i + 1)

\* a neighbor is queued while one of its dependencies is still open
ReleasedAtOne(in_degree, neighbor) == in_degree[neighbor] <= 1

\* in_degree[neighbor] == 0 after the decrement
Released(in_degree, neighbor) == in_degree[neighbor] = 0

\* for neighbor in adjacency[node]: st = [in_degree, queue]
RECURSIVE ReduceNeighbors(_, _, _)
ReduceNeighbors(neighbors, i, st) ==
    IF i > Len(neighbors) THEN st
    ELSE LET n == neighbors[i]
             deg == [st.in_degree EXCEPT ![n] = @ - 1]
         IN ReduceNeighbors(neighbors, i + 1,
                [in_degree |-> deg,
                 queue |-> IF Released(deg, n) THEN Append(st.queue, n) ELSE st.queue])

\* for _ in range(level_size): pops the nodes of one level, queues the next
RECURSIVE ProcessLevel(_, _, _, _)
ProcessLevel(graph, level, i, st) ==
    IF i > Len(level) THEN st
    ELSE ProcessLevel(graph, level, i + 1,
                      ReduceNeighbors(Adjacency(graph, level[i], 1), 1, st))

RECURSIVE Levels(_, _, _)

\* one node is popped for a level where level_size nodes are meant
LevelsOneNode(graph, in_degree, queue) ==
    IF queue = <<>> THEN <<>>
    ELSE LET st == ProcessLevel(graph, <<Head(queue)>>, 1,
                                [in_degree |-> in_degree, queue |-> Tail(queue)])
         IN <<<<Head(queue)>>>> \o Levels(graph, st.in_degree, st.queue)

\* while queue: ...
Levels(graph, in_degree, queue) ==
    IF queue = <<>> THEN <<>>
    ELSE LET st == ProcessLevel(graph, queue, 1,
                                [in_degree |-> in_degree, queue |-> <<>>])
         IN <<queue>> \o Levels(graph, st.in_degree, st.queue)

_topological_sort(graph) == Levels(graph, InDegree(graph), InitialQueue(graph, 1))

----------------------------------------------------------------------------
(* _group_into_tracks *)

\* a level is parallel only above two features
TrackParallelAboveTwo(level, level_idx) ==
    IF Len(level) <= 2
    THEN [id |-> <<"track_seq", level_idx>>, type |-> "sequential",
          features |-> level, level |-> level_idx, can_parallel |-> FALSE]
    ELSE [id |-> <<"track_par", level_idx>>, type |-> "parallel",
          features |-> level, level |-> level_idx, can_parallel |-> TRUE]

\* f'track_seq_{level_idx}' / f'track_par_{level_idx}' as a pair
Track(level, level_idx) ==
    IF Len(level) = 1
    THEN [id |-> <<"track_seq", level_idx>>, type |-> "sequential",
          features |-> level, level |-> level_idx, can_parallel |-> FALSE]
    ELSE [id |-> <<"track_par", level_idx>>, type |-> "parallel",
          features |-> level, level |-> level_idx, can_parallel |-> TRUE]

\* enumerate() counts the levels from 0
_group_into_tracks(sorted_features) ==
    [i \in DOMAIN sorted_features |-> Track(sorted_features[i], i - 1)]

----------------------------------------------------------------------------
(* Python floats: IEEE 754 binary64, round to nearest, ties to even. A natural
   number is a sequence of digits to the base 2^15, lowest digit first, without
   leading zero digits; a non-negative float is [m, e] for m * 2^e, where m has
   53 bits, or is the empty sequence for 0.0. *)

Base == 2^15
MantissaBits == 53

RECURSIVE BigFromInt(_)
BigFromInt(n) == IF n = 0 THEN <<>> ELSE <<n % Base>> \o BigFromInt(n \div Base)

RECURSIVE BigToInt(_)
BigToInt(x) == IF x = <<>> THEN 0 ELSE x[1] + Base * BigToInt(Tail(x))

RECURSIVE BigTrim(_)
BigTrim(x) ==
    IF x = <<>> \/ x[Len(x)] # 0 THEN x ELSE BigTrim(SubSeq(x, 1, Len(x) - 1))

RECURSIVE BigAddCarry(_, _, _)
BigAddCarry(x, y, carry) ==
    IF x = <<>> /\ y = <<>> THEN (IF carry = 0 THEN <<>> ELSE <<carry>>)
    ELSE LET a == IF x = <<>> THEN 0 ELSE x[1]
             b == IF y = <<>> THEN 0 ELSE y[1]
             sum == a + b + carry
         IN <<sum % Base>>
            \o BigAddCarry(IF x = <<>> THEN x ELSE Tail(x),
                           IF y = <<>> THEN y ELSE Tail(y), sum \div Base)

BigAdd(x, y) == BigAddCarry(x, y, 0)

\* x - y for x >= y
RECURSIVE BigSubBorrow(_, _, _)
BigSubBorrow(x, y, borrow) ==
    IF x = <<>> THEN <<>>
    ELSE LET b == (IF y = <<>> THEN 0 ELSE y[1]) + borrow
             under == x[1] < b
         IN <<IF under THEN x[1] + Base - b ELSE x[1] - b>>
            \o BigSubBorrow(Tail(x), IF y = <<>> THEN y ELSE Tail(y),
                            IF under THEN 1 ELSE 0)

BigSub(x, y) == BigTrim(BigSubBorrow(x, y, 0))

RECURSIVE BigLess(_, _)
BigLess(x, y) ==
    IF Len(x) # Len(y) THEN Len(x) < Len(y)
    ELSE IF x = <<>> THEN FALSE
    ELSE IF x[Len(x)] # y[Len(y)] THEN x[Len(x)] < y[Len(y)]
    ELSE BigLess(BigTrim(SubSeq(x, 1, Len(x) - 1)), BigTrim(SubSeq(y, 1, Len(y) - 1)))

\* x * n for 0 <= n < Base
RECURSIVE BigMulCarry(_, _, _)
BigMulCarry(x, n, carry) ==
    IF x = <<>> THEN (IF carry = 0 THEN <<>> ELSE <<carry>>)
    ELSE LET prod == x[1] * n + carry
         IN <<prod % Base>> \o BigMulCarry(Tail(x), n, prod \div Base)

BigMulSmall(x, n) == BigTrim(BigMulCarry(x, n, 0))

\* x * 2^k
BigShl(x, k) ==
    IF x = <<>> THEN x
    ELSE [i \in 1..(k \div 15) |-> 0] \o BigMulSmall(x, 2^(k % 15))

\* x \div 2^k
BigShr(x, k) ==
    LET d == k \div 15
        b == k % 15
        y == IF d >= Len(x) THEN <<>> ELSE SubSeq(x, d + 1, Len(x))
    IN BigTrim([i \in DOMAIN y |->
                  (y[i] \div 2^b)
                  + (IF i < Len(y) THEN (y[i + 1] % 2^b) * 2^(15 - b) ELSE 0)])

\* the number of binary digits of x
BigBitLen(x) ==
    IF x = <<>> THEN 0
    ELSE 15 * (Len(x) - 1) + (CHOOSE k \in 1..15 : 2^(k - 1) <= x[Len(x)] /\ x[Len(x)] < 2^k)

\* the binary digit of weight 2^i
BigBit(x, i) ==
    IF i \div 15 >= Len(x) THEN 0 ELSE (x[i \div 15 + 1] \div 2^(i % 15)) % 2

ZeroFloat == [m |-> <<>>, e |-> 0]

\* the mantissa q1 after a round up: one more halving when it has 54 bits
RoundCarry(q1, e) ==
    IF BigBitLen(q1) > MantissaBits THEN [m |-> BigShr(q1, 1), e |-> e + 1]
    ELSE [m |-> q1, e |-> e]

\* x * 2^e with k > 0 bits too many, q being x without its k lowest bits: up
\* when the first bit cut is 1 and the rest is not zero or q is odd
RoundBits(x, e, k, q) ==
    IF /\ BigBit(x, k - 1) = 1
       /\ \/ BigBit(q, 0) = 1
          \/ BigShl(BigShr(x, k - 1), k - 1) # x
    THEN RoundCarry(BigAdd(q, <<1>>), e + k)
    ELSE [m |-> q, e |-> e + k]

\* x * 2^e, x # 0 having k bits more than the mantissa
RoundExcess(x, e, k) ==
    IF k <= 0 THEN [m |-> BigShl(x, -k), e |-> e + k]
    ELSE RoundBits(x, e, k, BigShr(x, k))

\* the float nearest to x * 2^e, ties to the even mantissa
RoundToFloat(x, e) ==
    IF x = <<>> THEN ZeroFloat ELSE RoundExcess(x, e, BigBitLen(x) - MantissaBits)

\* float(n) for an int n >= 0
FloatOfInt(n) == RoundToFloat(BigFromInt(n), 0)

\* x + y, both with the exponent of the smaller one
FloatAddAt(x, y, e) ==
    RoundToFloat(BigAdd(BigShl(x.m, x.e - e), BigShl(y.m, y.e - e)), e)

\* x + y
FloatAdd(x, y) ==
    IF x.m = <<>> THEN y
    ELSE IF y.m = <<>> THEN x
    ELSE FloatAddAt(x, y, Min(x.e, y.e))

\* x * float(n) for an int 0 <= n < Base
FloatMulInt(x, n) == RoundToFloat(BigMulSmall(x.m, n), x.e)

\* n more bits of the quotient of r by d, where r < d: the bits q and the rest;
\* once the rest is zero, so are the bits that remain
RECURSIVE DivideBits(_, _, _, _)
DivideStep(r2, d, n, q) ==
    IF BigLess(r2, d) THEN DivideBits(r2, d, n - 1, 2 * q)
    ELSE DivideBits(BigSub(r2, d), d, n - 1, 2 * q + 1)

DivideBits(r, d, n, q) ==
    IF n = 0 \/ r = <<>> THEN [q |-> q * 2^n, r |-> r]
    ELSE DivideStep(BigMulSmall(r, 2), d, n, q)

\* n more digits of the quotient of r by d, put below the digits so far
RECURSIVE DivideDigits(_, _, _, _)
DivideDigit(d, n, quotient, digit) ==
    DivideDigits(digit.r, d, n - 1, <<digit.q>> \o quotient)

DivideDigits(r, d, n, quotient) ==
    IF n = 0 \/ r = <<>> THEN [q |-> [i \in 1..n |-> 0] \o quotient, r |-> r]
    ELSE DivideDigit(d, n, quotient, DivideBits(r, d, 15, 0))

\* the quotient of the mantissas to 61 bits and one more bit, which is 1 when
\* the division left a rest, then rounded
DivideRound(x, y, first, rest) ==
    RoundToFloat(BigAdd(BigMulSmall(BigTrim(rest.q \o <<first>>), 2),
                        IF rest.r = <<>> THEN <<>> ELSE <<1>>),
                 x.e - y.e - 61)

\* first is the bit before the point of x.m / y.m, which lies between 1/2 and 2
DivideFrom(x, y, first) ==
    DivideRound(x, y, first,
                DivideDigits(IF first = 0 THEN x.m ELSE BigSub(x.m, y.m), y.m, 4, <<>>))

\* x / y for y # 0
FloatDiv(x, y) ==
    IF x.m = <<>> THEN ZeroFloat
    ELSE DivideFrom(x, y, IF BigLess(x.m, y.m) THEN 0 ELSE 1)

\* int(x) for x >= 0
FloatToInt(x) ==
    IF x.m = <<>> THEN 0
    ELSE IF x.e >= 0 THEN BigToInt(BigShl(x.m, x.e))
    ELSE BigToInt(BigShr(x.m, -x.e))

----------------------------------------------------------------------------
(* _allocate_resources *)

\* agents_per_team
AgentsPerTeam == 16
\* "Keep 100 as reserve"
Reserve == 100

\* {'low': 1, 'medium': 2, 'high': 3}.get(complexity, 2)
Weight(complexity) ==
    CASE complexity = "low" -> 1
      [] complexity = "medium" -> 2
      [] complexity = "high" -> 3
      [] OTHER -> 2

\* {'low': 0.8, 'medium': 1.0, 'high': 1.5}.get(priority, 1.0), times ten
PriorityMult10(priority) ==
    CASE priority = "low" -> 8
      [] priority = "medium" -> 10
      [] priority = "high" -> 15
      [] OTHER -> 10

\* track_complexity of one track, times ten
RECURSIVE TrackComplexity10(_, _, _)
TrackComplexity10(graph, features, i) ==
    IF i > Len(features) THEN 0
    ELSE (IF features[i] \in Keys(graph)
          THEN Weight(Entry(graph, features[i]).complexity)
               * PriorityMult10(Entry(graph, features[i]).priority)
          ELSE 0)
         + TrackComplexity10(graph, features, i + 1)

RECURSIVE TotalComplexity10(_, _, _)
TotalComplexity10(graph, tracks, i) ==
    IF i > Len(tracks) THEN 0
    ELSE TrackComplexity10(graph, tracks[i].features, 1)
         + TotalComplexity10(graph, tracks, i + 1)

\* the priority multipliers as the floats their literals denote
Literal(tenths) == FloatDiv(FloatOfInt(tenths), FloatOfInt(10))

PriorityMultFloats ==
    [low |-> Literal(PriorityMult10("low")),
     medium |-> Literal(PriorityMult10("medium")),
     high |-> Literal(PriorityMult10("high"))]

PriorityMult(priority) ==
    PriorityMultFloats[IF priority \in {"low", "medium", "high"} THEN priority
                       ELSE "medium"]

\* track_complexity += weight * priority_mult, feature by feature, in floats
RECURSIVE TrackComplexity(_, _, _, _)
TrackComplexity(graph, features, i, track_complexity) ==
    IF i > Len(features) THEN track_complexity
    ELSE TrackComplexity(graph, features, i + 1,
            IF features[i] \in Keys(graph)
            THEN FloatAdd(track_complexity,
                          FloatMulInt(PriorityMult(Entry(graph, features[i]).priority),
                                      Weight(Entry(graph, features[i]).complexity)))
            ELSE track_complexity)

\* total_complexity += track_complexity, track by track, in floats
RECURSIVE TotalComplexity(_, _, _, _)
TotalComplexity(graph, tracks, i, total_complexity) ==
    IF i > Len(tracks) THEN total_complexity
    ELSE TotalComplexity(graph, tracks, i + 1,
            FloatAdd(total_complexity,
                     TrackComplexity(graph, tracks[i].features, 1, ZeroFloat)))

\* int(x) of Python: the quotient n/d (d > 0) cut towards zero
IntTrunc(n, d) == IF n >= 0 THEN n \div d ELSE -((-n) \div d)

\* int((data['complexity'] / total_complexity) * available_processes) for
\* total_complexity > 0. The float product lies within 2^-30 of the exact share
\* c10 * available / total10, and an exact share that is no whole number lies at
\* least 1 / total10 from one: there int() yields the exact share cut towards
\* zero. Of one track alone, complexity / total_complexity is 1.0 and the product
\* is exact. Elsewhere the float operations are carried out.
Share(c10, total10, complexity, total_complexity, available_processes) ==
    IF c10 = total10 \/ (c10 * available_processes) % total10 # 0
    THEN IntTrunc(c10 * available_processes, total10)
    ELSE (IF available_processes >= 0 THEN 1 ELSE -1)
         * FloatToInt(FloatMulInt(FloatDiv(complexity, total_complexity),
                                  Abs(available_processes)))

\* no minimum of one team
ProcessCountNoMinimum(share, total_complexity10) ==
    IF total_complexity10 > 0
    THEN (share \div AgentsPerTeam) * AgentsPerTeam
    ELSE AgentsPerTeam

\* the body of the second loop of _allocate_resources
ProcessCount(share, total_complexity10) ==
    IF total_complexity10 > 0
    THEN LET process_count == Max(share, AgentsPerTeam)
             team_count == process_count \div AgentsPerTeam
         IN team_count * AgentsPerTeam
    ELSE AgentsPerTeam

\* allocation: one entry per track, in track order (track ids are distinct)
\* allocation[track_id] = {'processes', 'teams', 'features', 'complexity'}
Allocation(track, complexity10, process_count) ==
    [track_id |-> track.id,
     complexity10 |-> complexity10,
     features |-> track.features,
     processes |-> process_count,
     teams |-> process_count \div AgentsPerTeam]

\* the entry of one track of complexity c (times ten), given the total
\* complexity as the integer and as the float
TrackAllocation(graph, track, c, total, total_complexity, available_processes) ==
    Allocation(track, c,
               ProcessCount(Share(c, total,
                                  TrackComplexity(graph, track.features, 1, ZeroFloat),
                                  total_complexity, available_processes),
                            total))

\* the loop over track_complexity.items(), after total_complexity is known
AllocateWith(graph, tracks, total, total_complexity, available_processes) ==
    [i \in DOMAIN tracks |->
        TrackAllocation(graph, tracks[i], TrackComplexity10(graph, tracks[i].features, 1),
                        total, total_complexity, available_processes)]

_allocate_resources(graph, tracks, maxp) ==
    AllocateWith(graph, tracks, TotalComplexity10(graph, tracks, 1),
                 TotalComplexity(graph, tracks, 1, ZeroFloat), maxp - Reserve)

\* allocation.get(track_id, {}).get('teams', 1)
TeamsOf(allocation, track_id) ==
    IF \E i \in DOMAIN allocation : allocation[i].track_id = track_id
    THEN allocation[CHOOSE i \in DOMAIN allocation : allocation[i].track_id = track_id].teams
    ELSE 1

\* allocation.get(track_id, {}).get('processes', self.agents_per_team)
ProcessesOf(allocation, track_id) ==
    IF \E i \in DOMAIN allocation : allocation[i].track_id = track_id
    THEN allocation[CHOOSE i \in DOMAIN allocation : allocation[i].track_id = track_id].processes
    ELSE AgentsPerTeam

----------------------------------------------------------------------------
(* _estimate_track_duration, _create_execution_plan, _estimate_duration *)

RECURSIVE TotalEffort(_, _, _)
TotalEffort(graph, features, i) ==
    IF i > Len(features) THEN 0
    ELSE (IF features[i] \in Keys(graph)
          THEN Entry(graph, features[i]).estimated_effort ELSE 0)
         + TotalEffort(graph, features, i + 1)

\* (total_effort * 5) / teams * overhead, overhead 1.1 or 1.0
_estimate_track_duration(graph, track, teams) ==
    Frac(TotalEffort(graph, track.features, 1) * 5
            * (IF track.can_parallel THEN 11 ELSE 10),
         teams * 10)

\* current_time advances after every track
AdvanceAlways(track, current_time, duration) == FracAdd(current_time, duration)

\* if not track['can_parallel']: current_time += step['duration']
Advance(track, current_time, duration) ==
    IF ~track.can_parallel THEN FracAdd(current_time, duration) ELSE current_time

RECURSIVE PlanSteps(_, _, _, _, _)
PlanSteps(graph, tracks, allocation, i, current_time) ==
    IF i > Len(tracks) THEN <<>>
    ELSE LET track == tracks[i]
             duration == _estimate_track_duration(graph, track,
                                                  TeamsOf(allocation, track.id))
             step == [step |-> i,
                      track_id |-> track.id,
                      type |-> track.type,
                      features |-> track.features,
                      teams |-> TeamsOf(allocation, track.id),
                      processes |-> ProcessesOf(allocation, track.id),
                      start_time |-> current_time,
                      duration |-> duration,
                      can_parallel |-> track.can_parallel]
         IN <<step>> \o PlanSteps(graph, tracks, allocation, i + 1,
                                  Advance(track, current_time, duration))

_create_execution_plan(graph, tracks, allocation) ==
    PlanSteps(graph, tracks, allocation, 1, Zero)

\* the loop of _estimate_duration: acc = [total_duration, parallel_duration]
RECURSIVE DurationLoop(_, _, _, _, _)
DurationLoop(graph, tracks, self_allocation, i, acc) ==
    IF i > Len(tracks) THEN acc
    ELSE LET track_duration ==
                 _estimate_track_duration(graph, tracks[i],
                                          TeamsOf(self_allocation, tracks[i].id))
         IN DurationLoop(graph, tracks, self_allocation, i + 1,
                IF tracks[i].can_parallel
                THEN [acc EXCEPT !.parallel_duration = FracMax(@, track_duration)]
                ELSE [acc EXCEPT !.total_duration = FracAdd(@, track_duration)])

\* reads self.resource_allocation, not the allocation of this call
_estimate_duration(graph, tracks, self_allocation) ==
    LET acc == DurationLoop(graph, tracks, self_allocation, 1,
                            [total_duration |-> Zero, parallel_duration |-> Zero])
    IN FracAdd(acc.total_duration, acc.parallel_duration)

----------------------------------------------------------------------------
(* The task lists the calls are given *)

Task(id, deps, profile) ==
    [id |-> id, dependencies |-> deps, complexity |-> profile.complexity,
     priority |-> profile.priority, effort |-> profile.effort]

\* dependency lists of at most n entries; an entry may repeat and may name any id
DepSeqs(ids, n) == UNION { [1..k -> ids] : k \in 0..n }

\* lists of tasks with pairwise distinct ids and at most `edges` dependency
\* entries in all; a task has the profile usual[id], but for at most one task of
\* the list, which has a profile of `custom`
RECURSIVE FeatureLists(_, _, _, _, _)
FeatureLists(ids, dep_ids, edges, usual, custom) ==
    {<<>>} \cup
    UNION { UNION { { <<Task(id, deps, profile)>> \o rest :
                        rest \in FeatureLists(ids \ {id}, dep_ids, edges - Len(deps),
                                              usual,
                                              IF profile = usual[id]
                                              THEN custom ELSE {}) } :
                    deps \in DepSeqs(dep_ids, edges),
                    profile \in {usual[id]} \cup custom } :
            id \in ids }

PlanFeatureLists ==
    FeatureLists(TaskIds, TaskIds, MaxEdges, [id \in TaskIds |-> DefaultProfile],
                 CustomProfiles)

SeqFeatureLists == FeatureLists(SeqTaskIds, SeqTaskIds, SeqMaxEdges, SeqProfile, {})

\* lists of tasks of the default profile with up to `edges` dependency entries
LevelFeatureLists(edges) ==
    FeatureLists(TaskIds, TaskIds, edges, [id \in TaskIds |-> DefaultProfile], {})

\* the capacities and the task lists the allocation is checked over: tasks a, b,
\* c in this order, of every complexity and priority, in tracks of one or two
AllocMaxProcessesValues == {724, 980}

AllocProfiles ==
    { [complexity |-> c, priority |-> p, effort |-> DefaultProfile.effort] :
        c \in {"low", "medium", "high"}, p \in {"low", "medium", "high"} }

AllocShapes ==
    { << <<>> >>,
      << <<>>, <<"a">> >>,
      << <<>>, <<>>, <<>> >>,
      << <<>>, <<"a">>, <<"a">> >>,
      << <<>>, <<"a">>, <<"b">> >>,
      << <<>>, <<>>, <<"a", "b">> >> }

AllocIds == <<"a", "b", "c">>

AllocFeatureLists ==
    UNION { { [i \in DOMAIN shape |-> Task(AllocIds[i], shape[i], profiles[i])] :
                profiles \in [DOMAIN shape -> AllocProfiles] } :
            shape \in AllocShapes }

\* the features of the sample run; none of them has an 'effort'
SampleFeature(id, complexity, priority, deps) ==
    Task(id, deps, [complexity |-> complexity, priority |-> priority,
                    effort |-> DefaultProfile.effort])

SampleFeatures ==
    << SampleFeature("auth", "high", "high", <<>>),
       SampleFeature("profile", "medium", "medium", <<"auth">>),
       SampleFeature("dashboard", "high", "high", <<"auth", "profile">>),
       SampleFeature("payments", "high", "high", <<"auth">>),
       SampleFeature("analytics", "medium", "low", <<>>),
       SampleFeature("seo", "low", "medium", <<>>),
       SampleFeature("roulette", "high", "high", <<>>),
       SampleFeature("social", "medium", "low", <<"auth", "profile">>) >>

\* the lists that hold the elements of S once each, in any order
RECURSIVE Orders(_)
Orders(S) ==
    IF S = {} THEN {<<>>}
    ELSE UNION { { <<x>> \o rest : rest \in Orders(S \ {x}) } : x \in S }

\* the sample features: the first one first, the others listed in any order
SampleFeatureLists(sample) ==
    { <<sample[1]>> \o rest : rest \in Orders(Range(sample) \ {sample[1]}) }

----------------------------------------------------------------------------
(* Calls *)

NoAnalysis ==
    [total_features |-> 0, independent_features |-> <<>>,
     dependent_features |-> <<>>, critical_path |-> <<>>,
     parallelism_score |-> Zero]

\* no call of monitor_sprint_execution yet
NoMonitoring == [called |-> FALSE]

\* no call yet; `monitored` says that monitor_sprint_execution was called after
\* the call returned
NoCall ==
    [op |-> "none", live |-> FALSE, fresh |-> FALSE, monitored |-> FALSE,
     max_processes |-> 0,
     features |-> <<>>, analysis |-> NoAnalysis, levels |-> <<>>, tracks |-> <<>>,
     resource_allocation |-> <<>>, execution_plan |-> <<>>,
     estimated_duration |-> Zero, error |-> "none",
     current_analysis |-> NoAnalysis, optimized |-> FALSE,
     optimized_features |-> <<>>, improvements |-> <<>>]

\* a call of `op` on the planner in use, before it has returned anything
Call(op, features) ==
    [NoCall EXCEPT
       !.op = op,
       !.live = TRUE,
       !.fresh = (dependency_graph = <<>>),
       !.max_processes = max_processes,
       !.features = features]

\* ParallelSprintPlanningAgent(max_processes = maxp) replaces the planner; what
\* the old one returned is kept, marked as not of the planner in use
NewPlanner(maxp) ==
    /\ max_processes' = maxp
    /\ dependency_graph' = <<>>
    /\ resource_allocation' = <<>>
    /\ last' = [last EXCEPT !.live = FALSE]
    /\ UNCHANGED <<prev, monitoring>>
    /\ UNCHANGED orchestrator_vars

\* the call before this one, kept when it was the same call with the same
\* arguments; its `live` says whether it was made on the planner of this call
Previous(op, features) ==
    IF last.op = op /\ last.features = features THEN last ELSE NoCall

\* analyze_features(features)
AnalyzeFeatures(features) ==
    LET graph == BuildGraph(dependency_graph, features, 1)
    IN /\ dependency_graph' = graph
       /\ prev' = Previous("analyze_features", features)
       /\ last' = [Call("analyze_features", features) EXCEPT
                     !.analysis = Analysis(graph, features)]
       /\ UNCHANGED <<max_processes, resource_allocation, monitoring>>
       /\ UNCHANGED orchestrator_vars

\* base_time = (total_effort * 5) / teams raises when a track has no team
DivisionByZero(allocation) == \E i \in DOMAIN allocation : allocation[i].teams = 0

\* the body of create_parallel_tracks on a planner whose graph is graph0: the
\* graph it leaves and what it returns; the division is its only statement that
\* can raise, and then nothing is returned
create_parallel_tracks(graph0, features, maxp, self_allocation) ==
    LET graph == BuildGraph(graph0, features, 1)
        sorted_features == _topological_sort(graph)
        tracks == _group_into_tracks(sorted_features)
        allocation == _allocate_resources(graph, tracks, maxp)
    IN IF DivisionByZero(allocation)
       THEN [graph |-> graph, error |-> "ZeroDivisionError",
             analysis |-> NoAnalysis, levels |-> <<>>, tracks |-> <<>>,
             resource_allocation |-> <<>>, execution_plan |-> <<>>,
             estimated_duration |-> Zero]
       ELSE [graph |-> graph, error |-> "none",
             analysis |-> Analysis(graph, features),
             levels |-> sorted_features,
             tracks |-> tracks,
             resource_allocation |-> allocation,
             execution_plan |-> _create_execution_plan(graph, tracks, allocation),
             estimated_duration |-> _estimate_duration(graph, tracks, self_allocation)]

\* the fields of a call's record that create_parallel_tracks returned
WithPlan(call, result) ==
    [call EXCEPT
       !.error = result.error,
       !.analysis = result.analysis,
       !.levels = result.levels,
       !.tracks = result.tracks,
       !.resource_allocation = result.resource_allocation,
       !.execution_plan = result.execution_plan,
       !.estimated_duration = result.estimated_duration]

\* create_parallel_tracks(features)
CreateParallelTracks(features) ==
    LET result == create_parallel_tracks(dependency_graph, features, max_processes,
                                         resource_allocation)
    IN /\ dependency_graph' = result.graph
       /\ prev' = Previous("create_parallel_tracks", features)
       /\ last' = WithPlan(Call("create_parallel_tracks", features), result)
       /\ UNCHANGED <<max_processes, resource_allocation, monitoring>>
       /\ UNCHANGED orchestrator_vars

\* len(splits): every branch of _split_feature lists four names
SplitCount == 4

\* every sub-feature but the first depends on the one before it
SplitIntoChain(feature) ==
    [k \in 1..SplitCount |->
        [id |-> feature.id \o "_" \o ToString(k - 1),
         dependencies |-> IF k = 1 THEN <<>>
                          ELSE <<feature.id \o "_" \o ToString(k - 2)>>,
         complexity |-> "low",
         priority |-> feature.priority,
         effort |-> 2]]

\* _split_feature(feature): sub-feature idx has the id f"{id}_{idx}"
_split_feature(feature) ==
    [k \in 1..SplitCount |->
        [id |-> feature.id \o "_" \o ToString(k - 1),
         dependencies |-> <<>>,
         complexity |-> "low",
         priority |-> feature.priority,
         effort |-> 2]]

\* feature.get('complexity') == 'high' and not feature.get('dependencies')
IsSplit(feature) == feature.complexity = "high" /\ feature.dependencies = <<>>

\* optimized_features of optimize_sprint
RECURSIVE OptimizedFeatures(_, _)
OptimizedFeatures(features, i) ==
    IF i > Len(features) THEN <<>>
    ELSE (IF IsSplit(features[i]) THEN _split_feature(features[i])
          ELSE <<features[i]>>)
         \o OptimizedFeatures(features, i + 1)

\* the ids of the features an improvement was recorded for
Improvements(features) ==
    LET split == SelectSeq(features, IsSplit)
    IN [k \in DOMAIN split |-> split[k].id]

\* current_analysis['parallelism_score'] < 0.7
LowParallelism(analysis) ==
    analysis.parallelism_score.num * 10 < 7 * analysis.parallelism_score.den

\* optimize_sprint({'features': features})
OptimizeSprint(features) ==
    LET graph == BuildGraph(dependency_graph, features, 1)
        current_analysis == Analysis(graph, features)
        call == [Call("optimize_sprint", features) EXCEPT
                   !.current_analysis = current_analysis]
        optimized_features == OptimizedFeatures(features, 1)
        result == create_parallel_tracks(graph, optimized_features, max_processes,
                                         resource_allocation)
    IN /\ prev' = Previous("optimize_sprint", features)
       /\ IF LowParallelism(current_analysis)
          THEN /\ dependency_graph' = result.graph
               /\ last' = [WithPlan(call, result) EXCEPT
                             !.optimized = TRUE,
                             !.optimized_features = optimized_features,
                             !.improvements = Improvements(features)]
          ELSE /\ dependency_graph' = graph
               /\ last' = call
       /\ UNCHANGED <<max_processes, resource_allocation, monitoring>>
       /\ UNCHANGED orchestrator_vars

----------------------------------------------------------------------------
(* monitor_sprint_execution *)

\* sprint_status.get('tracks', {}): the track statuses, in the order of the dict
StatusTracks(sprint_status) ==
    IF sprint_status.has_tracks THEN sprint_status.tracks ELSE <<>>

\* track_status.get('completion_rate', 0)
CompletionRate(track_status) ==
    IF track_status.has_completion_rate THEN track_status.completion_rate ELSE Zero

\* track_status.get('elapsed_time', 0)
ElapsedTime(track_status) ==
    IF track_status.has_elapsed_time THEN track_status.elapsed_time ELSE 0

\* a track at half completion or at elapsed time 10 counts as a bottleneck
IsBottleneckInclusive(track_status) ==
    /\ ~FracLess(Frac(1, 2), CompletionRate(track_status))
    /\ ElapsedTime(track_status) >= 10

\* completion_rate < 0.5 and track_status.get('elapsed_time', 0) > 10
IsBottleneck(track_status) ==
    /\ FracLess(CompletionRate(track_status), Frac(1, 2))
    /\ ElapsedTime(track_status) > 10

\* the first loop: one entry for every bottleneck, in the order of the dict
RECURSIVE Bottlenecks(_, _)
Bottlenecks(tracks, i) ==
    IF i > Len(tracks) THEN <<>>
    ELSE (IF IsBottleneck(tracks[i])
          THEN <<[track |-> tracks[i].track_id,
                  completion |-> CompletionRate(tracks[i]),
                  suggestion |-> "Allocate more resources to this track"]>>
          ELSE <<>>)
         \o Bottlenecks(tracks, i + 1)

\* sum(t.get('completion_rate', 0) for t in ...values())
RECURSIVE TotalCompletion(_, _)
TotalCompletion(tracks, i) ==
    IF i > Len(tracks) THEN Zero
    ELSE FracAdd(CompletionRate(tracks[i]), TotalCompletion(tracks, i + 1))

\* total_completion / track_count, 0.0 when there is no track
HealthScore(tracks) ==
    IF Len(tracks) > 0
    THEN LET total_completion == TotalCompletion(tracks, 1)
         IN Frac(total_completion.num, total_completion.den * Len(tracks))
    ELSE Zero

\* monitoring['health_score'] < 0.7
LowHealth(health_score) == FracLess(health_score, Frac(7, 10))

\* what monitor_sprint_execution(sprint_status) returns; 'status' is the
\* sprint_status object itself
monitor_sprint_execution(sprint_status) ==
    LET tracks == StatusTracks(sprint_status)
        health_score == HealthScore(tracks)
    IN [called |-> TRUE,
        status |-> sprint_status,
        bottlenecks |-> Bottlenecks(tracks, 1),
        reallocation_suggestions |->
            IF LowHealth(health_score)
            THEN <<"Sprint health is low. Consider reallocating idle resources to bottleneck tracks.">>
            ELSE <<>>,
        health_score |-> health_score]

\* the call clears the dependency graph of the planner
MonitorAndReset(sprint_status) ==
    /\ monitoring' = monitor_sprint_execution(sprint_status)
    /\ last' = [last EXCEPT !.monitored = TRUE]
    /\ dependency_graph' = <<>>
    /\ UNCHANGED <<max_processes, resource_allocation, prev>>
    /\ UNCHANGED orchestrator_vars

\* monitor_sprint_execution(sprint_status): it assigns no attribute of the planner
MonitorSprintExecution(sprint_status) ==
    /\ monitoring' = monitor_sprint_execution(sprint_status)
    /\ last' = [last EXCEPT !.monitored = TRUE]
    /\ UNCHANGED <<max_processes, dependency_graph, resource_allocation, prev>>
    /\ UNCHANGED orchestrator_vars

----------------------------------------------------------------------------
(* The sprint statuses monitor_sprint_execution is given *)

StatusTrackIds == { <<"track_par", 0>>, <<"track_seq", 1>> }
CompletionRates == { Frac(2, 5), Frac(1, 2), One }
ElapsedTimes == { 10, 11 }

\* a track status with or without each of its two keys
TrackStatuses(track_id) ==
    { [track_id |-> track_id, has_completion_rate |-> TRUE, completion_rate |-> r,
       has_elapsed_time |-> TRUE, elapsed_time |-> e] :
          r \in CompletionRates, e \in ElapsedTimes }
    \cup { [track_id |-> track_id, has_completion_rate |-> FALSE, completion_rate |-> Zero,
            has_elapsed_time |-> TRUE, elapsed_time |-> e] : e \in ElapsedTimes }
    \cup { [track_id |-> track_id, has_completion_rate |-> TRUE, completion_rate |-> r,
            has_elapsed_time |-> FALSE, elapsed_time |-> 0] : r \in CompletionRates }
    \cup { [track_id |-> track_id, has_completion_rate |-> FALSE, completion_rate |-> Zero,
            has_elapsed_time |-> FALSE, elapsed_time |-> 0] }

\* the dicts of track statuses over the ids of `track_ids`, in any order
RECURSIVE TrackDicts(_)
TrackDicts(track_ids) ==
    {<<>>} \cup
    UNION { UNION { { <<track_status>> \o rest : rest \in TrackDicts(track_ids \ {id}) } :
                    track_status \in TrackStatuses(id) } :
            id \in track_ids }

\* a sprint status without the key 'tracks', and the ones with it
SprintStatuses ==
    { [has_tracks |-> FALSE, tracks |-> <<>>] }
    \cup { [has_tracks |-> TRUE, tracks |-> tracks] : tracks \in TrackDicts(StatusTrackIds) }

\* for the monitoring between two plans: no track, a healthy one, a bottleneck
PlanSprintStatuses ==
    { [has_tracks |-> TRUE, tracks |-> <<>>],
      [has_tracks |-> TRUE,
       tracks |-> <<[track_id |-> <<"track_par", 0>>, has_completion_rate |-> TRUE,
                     completion_rate |-> One, has_elapsed_time |-> TRUE,
                     elapsed_time |-> 10]>>],
      [has_tracks |-> TRUE,
       tracks |-> <<[track_id |-> <<"track_seq", 1>>, has_completion_rate |-> TRUE,
                     completion_rate |-> Frac(2, 5), has_elapsed_time |-> TRUE,
                     elapsed_time |-> 11]>>] }

\* the task lists planned around a monitoring: one task without dependencies
MonitorFeatureLists == { <<Task(id, <<>>, SeqProfile[id])>> : id \in SeqTaskIds }

----------------------------------------------------------------------------
(* MasterOrchestrator: the agent pool *)

\* total_agents of _initialize_agent_pool (200 in the code)
PoolSize == 3
\* self.max_concurrent_projects (50 in the code)
MaxConcurrentProjects == 2

\* agent_types of _initialize_agent_pool
AgentTypes ==
    << "frontend-developer", "backend-developer", "mobile-developer",
       "ai-engineer", "devops-engineer", "automation-qa", "security-tester",
       "performance-tester", "ux-designer", "ui-designer", "business-analyst",
       "product-owner", "scrum-master", "documentation", "support" >>

\* the agent f"agent_{i:03d}" is written i
AgentIds == 0..(PoolSize - 1)

\* specializations[agent_id]: (i % 3) + 1 types, from agent_types[i % 15] on
Specialization(i) ==
    { AgentTypes[((i + j) % Len(AgentTypes)) + 1] : j \in 0..(i % 3) }

\* the pool _initialize_agent_pool returns; busy_agents maps agent -> project id
InitialAgentPool == [available_agents |-> AgentIds, busy_agents |-> <<>>]


\* min(required_agents, 5): the agents _can_allocate_resources asks for
CheckedAgents(project) == Min(Cardinality(project.agents_required), 5)

\* _can_allocate_resources(project), read under resource_lock
_can_allocate_resources(project) ==
    /\ Cardinality(agent_pool.available_agents) >= CheckedAgents(project)
    /\ current_utilization.cpu < 80
    /\ current_utilization.memory < 80
    /\ Cardinality(active_projects) < MaxConcurrentProjects

\* the loops of _assign_agents: the agent types of a set and the agents of a set
\* come in an order the code does not fix, so every order is an outcome; a type
\* takes the first available agent that has it, or none
RECURSIVE AssignOutcomes(_, _, _)
AssignOutcomes(agent_types, available_agents, assigned) ==
    IF agent_types = {}
    THEN { [available_agents |-> available_agents, assigned |-> assigned] }
    ELSE UNION {
           LET matching == { a \in available_agents : t \in Specialization(a) }
           IN IF matching = {}
              THEN AssignOutcomes(agent_types \ {t}, available_agents, assigned)
              ELSE UNION { AssignOutcomes(agent_types \ {t}, available_agents \ {a},
                                          Append(assigned, a)) : a \in matching }
           : t \in agent_types }

\* the assignment without its record in busy_agents
BusyNotRecorded(busy_agents, assigned, project_id) == busy_agents

\* busy_agents[agent_id] = project.id for the agents assigned
Busy(busy_agents, assigned, project_id) ==
    [a \in DOMAIN busy_agents \cup Range(assigned) |->
        IF a \in Range(assigned) THEN project_id ELSE busy_agents[a]]

\* a release that gives back one agent of the project at most
ReleaseOneAgent(pool, project_id) ==
    LET mine == { a \in DOMAIN pool.busy_agents : pool.busy_agents[a] = project_id }
        first == IF mine = {} THEN {} ELSE { CHOOSE a \in mine : \A b \in mine : a <= b }
    IN [available_agents |-> pool.available_agents \cup first,
        busy_agents |-> [a \in DOMAIN pool.busy_agents \ first |-> pool.busy_agents[a]]]

\* _release_resources(project): the agents of the project go back to the pool
_release_resources(pool, project_id) ==
    LET mine == { a \in DOMAIN pool.busy_agents : pool.busy_agents[a] = project_id }
    IN [available_agents |-> pool.available_agents \cup mine,
        busy_agents |-> [a \in DOMAIN pool.busy_agents \ mine |-> pool.busy_agents[a]]]

----------------------------------------------------------------------------
(* MasterOrchestrator: orchestrate_projects and _process_project *)

\* the orchestrator as __init__ leaves it, before any orchestrate_projects
NoOrchestration ==
    /\ projects = <<>>
    /\ loop = <<>>
    /\ results = <<>>
    /\ async_tasks = <<>>
    /\ agent_pool = InitialAgentPool
    /\ active_projects = {}
    /\ current_utilization = [cpu |-> 50, memory |-> 50]
    /\ project_status = <<>>
    /\ assigned_agents = <<>>

\* the project requests: the projects have one priority, so the sort keeps them
ProjectIds == << "p1", "p2" >>
RequiredTypes == { "frontend-developer", "backend-developer", "mobile-developer" }
ProjectBatches ==
    { [i \in DOMAIN ProjectIds |-> [id |-> ProjectIds[i], agents_required |-> required[i]]] :
        required \in [DOMAIN ProjectIds -> SUBSET RequiredTypes] }

\* requests of more projects than max_concurrent_projects: more than one batch
LongProjectIds == << "p1", "p2", "p3" >>
FewRequiredTypes == { {}, {"frontend-developer"} }
LongProjectBatches ==
    { [i \in DOMAIN LongProjectIds |->
          [id |-> LongProjectIds[i], agents_required |-> required[i]]] :
        required \in [DOMAIN LongProjectIds -> FewRequiredTypes] }

\* the requests of two orchestrate_projects calls that run on one event loop
OtherProjectIds == << "q1", "q2" >>
FirstCallBatches ==
    { [i \in DOMAIN ProjectIds |-> [id |-> ProjectIds[i], agents_required |-> required[i]]] :
        required \in [DOMAIN ProjectIds -> FewRequiredTypes] }
SecondCallBatches ==
    { [i \in DOMAIN OtherProjectIds |->
          [id |-> OtherProjectIds[i], agents_required |-> required[i]]] :
        required \in [DOMAIN OtherProjectIds -> FewRequiredTypes] }

AllProjectIds == Range(LongProjectIds) \cup Range(OtherProjectIds)
CallIds == 1..2

\* psutil readings below and above the limit of 80
UtilizationValues == { 50, 90 }

\* the ids of the projects of the calls
RequestedIds(calls) ==
    UNION { { calls[c][k].id : k \in DOMAIN calls[c] } : c \in DOMAIN calls }

\* the calls orchestrate_projects(project_requests) made on a new orchestrator,
\* none of them yet run by the event loop
OrchestrateCalls(calls) ==
    /\ max_processes = 1000
    /\ dependency_graph = <<>>
    /\ resource_allocation = <<>>
    /\ last = NoCall
    /\ prev = NoCall
    /\ monitoring = NoMonitoring
    /\ projects = calls
    /\ loop = [c \in DOMAIN calls |->
                  [phase |-> "pending", start |-> 1, next |-> 1, batch_tasks |-> <<>>]]
    /\ results = [c \in DOMAIN calls |-> <<>>]
    /\ async_tasks = [id \in RequestedIds(calls) |-> "none"]
    /\ agent_pool = InitialAgentPool
    /\ active_projects = {}
    /\ current_utilization \in [cpu : UtilizationValues, memory : UtilizationValues]
    /\ project_status = [id \in RequestedIds(calls) |-> "pending"]
    /\ assigned_agents = [id \in RequestedIds(calls) |-> <<>>]

\* one orchestrate_projects call
InitOrchestrate ==
    \E requests \in ProjectBatches \cup LongProjectBatches : OrchestrateCalls(<<requests>>)

\* two orchestrate_projects calls, as of asyncio.gather on both
InitConcurrent ==
    \E first \in FirstCallBatches, second \in SecondCallBatches :
        OrchestrateCalls(<<first, second>>)

\* the event loop runs one coroutine at a time: while a call is in its
\* `for project in batch` loop, which does not await, no task and no other call runs
LoopFree == \A c \in DOMAIN loop : loop[c].phase # "checking"

\* batch_size = min(self.max_concurrent_projects, len(projects))
BatchSize(c) == Min(MaxConcurrentProjects, Len(projects[c]))

\* the index of the last project of batch = projects[i:i+batch_size]
BatchEnd(c) == Min(loop[c].start + BatchSize(c) - 1, Len(projects[c]))

\* orchestrate_projects from its start to the first batch of the batch loop
StartCall(c) ==
    /\ c \in DOMAIN loop
    /\ loop[c].phase = "pending"
    /\ LoopFree
    /\ loop' = [loop EXCEPT ![c].phase = "checking"]
    /\ UNCHANGED <<projects, results, async_tasks, agent_pool, active_projects,
                   current_utilization, project_status, assigned_agents>>
    /\ UNCHANGED planner_vars

\* one pass of `for project in batch`: the check, and on success create_task
CheckProject(c) ==
    /\ c \in DOMAIN loop
    /\ loop[c].phase = "checking"
    /\ loop[c].next <= BatchEnd(c)
    /\ LET project == projects[c][loop[c].next]
       IN IF _can_allocate_resources(project)
          THEN /\ async_tasks' = [async_tasks EXCEPT ![project.id] = "created"]
               /\ loop' = [loop EXCEPT ![c].next = @ + 1,
                                       ![c].batch_tasks = Append(@, project.id)]
          ELSE /\ loop' = [loop EXCEPT ![c].next = @ + 1]
               /\ UNCHANGED async_tasks
    /\ UNCHANGED <<projects, results, agent_pool, active_projects, current_utilization,
                   project_status, assigned_agents>>
    /\ UNCHANGED planner_vars

\* the loop record of the batch after the current one, or of the end of the
\* batch loop: `for i in range(0, len(projects), batch_size)`
NextBatch(c) ==
    IF BatchEnd(c) < Len(projects[c])
    THEN [phase |-> "checking", start |-> loop[c].start + BatchSize(c),
          next |-> loop[c].start + BatchSize(c), batch_tasks |-> <<>>]
    ELSE [loop[c] EXCEPT !.phase = "done"]

\* after the loop: await asyncio.gather(*batch_tasks) when there are tasks,
\* otherwise straight on to the next batch
Gather(c) ==
    /\ c \in DOMAIN loop
    /\ loop[c].phase = "checking"
    /\ loop[c].next > BatchEnd(c)
    /\ loop' = [loop EXCEPT ![c] = IF loop[c].batch_tasks = <<>>
                                   THEN NextBatch(c)
                                   ELSE [loop[c] EXCEPT !.phase = "gathering"]]
    /\ UNCHANGED <<projects, results, async_tasks, agent_pool, active_projects,
                   current_utilization, project_status, assigned_agents>>
    /\ UNCHANGED planner_vars

\* _process_project from its start to the first await that suspends: the tasks
\* of a batch start in the order of their creation, once orchestrate_projects
\* awaits
StartProject(c, k) ==
    /\ c \in DOMAIN loop
    /\ loop[c].phase = "gathering"
    /\ LoopFree
    /\ k \in DOMAIN loop[c].batch_tasks
    /\ async_tasks[loop[c].batch_tasks[k]] = "created"
    /\ \A j \in 1..(k - 1) : async_tasks[loop[c].batch_tasks[j]] # "created"
    /\ LET id == loop[c].batch_tasks[k]
           project == projects[c][CHOOSE i \in DOMAIN projects[c] : projects[c][i].id = id]
       IN /\ project_status' = [project_status EXCEPT ![id] = "in_progress"]
          /\ active_projects' = active_projects \cup {id}
          /\ \E outcome \in AssignOutcomes(project.agents_required,
                                            agent_pool.available_agents, <<>>) :
                /\ agent_pool' =
                      [available_agents |-> outcome.available_agents,
                       busy_agents |-> Busy(agent_pool.busy_agents, outcome.assigned, id)]
                /\ assigned_agents' = [assigned_agents EXCEPT ![id] = outcome.assigned]
          /\ async_tasks' = [async_tasks EXCEPT ![id] = "running"]
    /\ UNCHANGED <<projects, loop, results, current_utilization>>
    /\ UNCHANGED planner_vars

\* the rest of _process_project: the workflow, the tests and the deployment end
\* or one of them raises, then the finally block
FinishProject(id, status) ==
    /\ id \in DOMAIN async_tasks
    /\ async_tasks[id] = "running"
    /\ LoopFree
    /\ project_status' = [project_status EXCEPT ![id] = status]
    /\ agent_pool' = _release_resources(agent_pool, id)
    /\ active_projects' = active_projects \ {id}
    /\ async_tasks' = [async_tasks EXCEPT ![id] = "finished"]
    /\ UNCHANGED <<projects, loop, results, current_utilization, assigned_agents>>
    /\ UNCHANGED planner_vars

\* what _process_project returned for the project: its id and 'success' from
\* the try block or 'failed' from the except block
ProcessResult(id) ==
    [project_id |-> id,
     status |-> IF project_status[id] = "completed" THEN "success" ELSE "failed"]

\* for project, result in zip(batch, batch_results):
\*     results['projects'][project.id] = result
RECURSIVE StoreResults(_, _, _, _)
StoreResults(stored, batch, batch_results, k) ==
    IF k > Min(Len(batch), Len(batch_results)) THEN stored
    ELSE StoreResults([id \in DOMAIN stored \cup {batch[k].id} |->
                          IF id = batch[k].id THEN batch_results[k] ELSE stored[id]],
                      batch, batch_results, k + 1)

\* gather returns when every task of the batch has finished; the results are
\* stored and the batch loop goes on
GatherDone(c) ==
    /\ c \in DOMAIN loop
    /\ loop[c].phase = "gathering"
    /\ LoopFree
    /\ \A k \in DOMAIN loop[c].batch_tasks : async_tasks[loop[c].batch_tasks[k]] = "finished"
    /\ LET batch == SubSeq(projects[c], loop[c].start, BatchEnd(c))
           batch_results == [k \in DOMAIN loop[c].batch_tasks |->
                                ProcessResult(loop[c].batch_tasks[k])]
       IN results' = [results EXCEPT ![c] = StoreResults(@, batch, batch_results, 1)]
    /\ loop' = [loop EXCEPT ![c] = NextBatch(c)]
    /\ UNCHANGED <<projects, async_tasks, agent_pool, active_projects,
                   current_utilization, project_status, assigned_agents>>
    /\ UNCHANGED planner_vars

\* _monitor_system, on its own thread: a new reading of cpu and memory
MonitorSystem(cpu, memory) ==
    /\ \E c \in DOMAIN loop : loop[c].phase \in {"checking", "gathering"}
    /\ current_utilization' = [cpu |-> cpu, memory |-> memory]
    /\ UNCHANGED <<projects, loop, results, async_tasks, agent_pool, active_projects,
                   project_status, assigned_agents>>
    /\ UNCHANGED planner_vars

NextOrchestrate ==
    \/ \E c \in CallIds : StartCall(c)
    \/ \E c \in CallIds : CheckProject(c)
    \/ \E c \in CallIds : Gather(c)
    \/ \E c \in CallIds, k \in DOMAIN LongProjectIds : StartProject(c, k)
    \/ \E id \in AllProjectIds, status \in {"completed", "failed"} :
          FinishProject(id, status)
    \/ \E c \in CallIds : GatherDone(c)
    \/ \E cpu \in UtilizationValues, memory \in UtilizationValues :
          MonitorSystem(cpu, memory)

SpecOrchestrate == InitOrchestrate /\ [][NextOrchestrate]_vars

SpecConcurrent == InitConcurrent /\ [][NextOrchestrate]_vars

----------------------------------------------------------------------------
(* Specifications *)

\* sequences of calls on planners, over the small task lists
Init ==
    /\ max_processes \in SeqMaxProcessesValues
    /\ dependency_graph = <<>>
    /\ resource_allocation = <<>>
    /\ last = NoCall
    /\ prev = NoCall
    /\ monitoring = NoMonitoring
    /\ NoOrchestration

Next ==
    \/ \E maxp \in SeqMaxProcessesValues : NewPlanner(maxp)
    \/ \E features \in SeqFeatureLists : AnalyzeFeatures(features)
    \/ \E features \in SeqFeatureLists : CreateParallelTracks(features)
    \/ \E features \in SeqFeatureLists : OptimizeSprint(features)

Spec == Init /\ [][Next]_vars

\* one planning run: create_parallel_tracks as the first call on a new planner
InitPlan ==
    /\ max_processes \in MaxProcessesValues
    /\ dependency_graph = <<>>
    /\ resource_allocation = <<>>
    /\ last = NoCall
    /\ prev = NoCall
    /\ monitoring = NoMonitoring
    /\ NoOrchestration

FirstCreateParallelTracks(features) ==
    /\ last.op = "none"
    /\ CreateParallelTracks(features)

NextPlan ==
    /\ last.op = "none"
    /\ \E features \in PlanFeatureLists : FirstCreateParallelTracks(features)

SpecPlan == InitPlan /\ [][NextPlan]_vars

\* the sample run: ParallelSprintPlanningAgent(max_processes=1000), then
\* create_parallel_tracks over the sample features
InitSample ==
    /\ max_processes = 1000
    /\ dependency_graph = <<>>
    /\ resource_allocation = <<>>
    /\ last = NoCall
    /\ prev = NoCall
    /\ monitoring = NoMonitoring
    /\ NoOrchestration

SampleRun(features) ==
    /\ last.op = "none"
    /\ CreateParallelTracks(features)

NextSample ==
    /\ last.op = "none"
    /\ \E features \in SampleFeatureLists(SampleFeatures) : SampleRun(features)

SpecSample == InitSample /\ [][NextSample]_vars

\* one planning run of a planner of 1000 processes over the deeper task lists
NextLevels ==
    /\ last.op = "none"
    /\ \E features \in LevelFeatureLists(LevelMaxEdges) : FirstCreateParallelTracks(features)

SpecLevels == InitSample /\ [][NextLevels]_vars

\* one planning run over the task lists of the allocation
InitAllocate ==
    /\ max_processes \in AllocMaxProcessesValues
    /\ dependency_graph = <<>>
    /\ resource_allocation = <<>>
    /\ last = NoCall
    /\ prev = NoCall
    /\ monitoring = NoMonitoring
    /\ NoOrchestration

NextAllocate ==
    /\ last.op = "none"
    /\ \E features \in AllocFeatureLists : FirstCreateParallelTracks(features)

SpecAllocate == InitAllocate /\ [][NextAllocate]_vars

\* monitor_sprint_execution on a new planner, over all the sprint statuses
NextMonitor == \E sprint_status \in SprintStatuses : MonitorSprintExecution(sprint_status)

SpecMonitor == Init /\ [][NextMonitor]_vars

\* plans on one planner with monitoring between them
NextMonitorPlan ==
    \/ \E features \in MonitorFeatureLists : CreateParallelTracks(features)
    \/ \E sprint_status \in PlanSprintStatuses : MonitorSprintExecution(sprint_status)

SpecMonitorPlan == Init /\ [][NextMonitorPlan]_vars

\* one optimization: optimize_sprint as the first call on a new planner
FirstOptimizeSprint(features) ==
    /\ last.op = "none"
    /\ OptimizeSprint(features)

NextOptimize ==
    /\ last.op = "none"
    /\ \E features \in PlanFeatureLists : FirstOptimizeSprint(features)

SpecOptimize == Init /\ [][NextOptimize]_vars

----------------------------------------------------------------------------
(* Vocabulary of the properties *)

IdsOf(features) == { features[i].id : i \in DOMAIN features }

\* the ids the task `id` of the list depends on
DepsOf(features, id) ==
    UNION { Range(features[i].dependencies) :
            i \in { k \in DOMAIN features : features[k].id = id } }

KnownDeps(features) ==
    \A i \in DOMAIN features : Range(features[i].dependencies) \subseteq IdsOf(features)

\* everything reachable from the ids of S along dependencies
RECURSIVE Closure(_, _)
Closure(features, S) ==
    LET T == S \cup UNION { DepsOf(features, x) : x \in S }
    IN IF T = S THEN S ELSE Closure(features, T)

\* the tasks that lie on a dependency cycle or depend on one
OnCycle(features) ==
    { id \in IdsOf(features) : id \in Closure(features, DepsOf(features, id)) }

Acyclic(features) == OnCycle(features) = {}

WellFormed(features) == KnownDeps(features) /\ Acyclic(features)

Planned == last.op = "create_parallel_tracks"

\* the ids held by the levels, tracks, allocation and plan of the last call
IdsInLevels(levels) == UNION { Range(levels[i]) : i \in DOMAIN levels }
IdsInTracks(tracks) == UNION { Range(tracks[i].features) : i \in DOMAIN tracks }

\* sum and maximum of the durations of the steps of one kind
RECURSIVE SequentialSum(_, _)
SequentialSum(plan, n) ==
    IF n = 0 THEN Zero
    ELSE IF plan[n].can_parallel THEN SequentialSum(plan, n - 1)
         ELSE FracAdd(SequentialSum(plan, n - 1), plan[n].duration)

RECURSIVE ParallelMax(_, _)
ParallelMax(plan, n) ==
    IF n = 0 THEN Zero
    ELSE IF plan[n].can_parallel
         THEN FracMax(ParallelMax(plan, n - 1), plan[n].duration)
         ELSE ParallelMax(plan, n - 1)

RECURSIVE SumProcesses(_, _)
SumProcesses(allocation, n) ==
    IF n = 0 THEN 0 ELSE SumProcesses(allocation, n - 1) + allocation[n].processes

\* a sequence of ids in which each id depends directly on the next one
IsChain(features, path) ==
    \A i \in 1..(Len(path) - 1) : path[i + 1] \in DepsOf(features, path[i])

NoRepeat(path) == \A i, j \in DOMAIN path : i # j => path[i] # path[j]

\* all dependency chains over the ids of the list, by enumeration
Chains(features) ==
    { path \in UNION { [1..k -> IdsOf(features)] : k \in 0..Len(features) } :
        IsChain(features, path) /\ NoRepeat(path) }

----------------------------------------------------------------------------
(* Properties of one planning run (SpecPlan) *)

\* C1: on a new planner, for an acyclic task list with known dependencies, every
\* task and every dependency of it are held by levels, and the level holding the
\* task has a strictly greater index than the level holding the dependency.
C1_LevelsRespectDependencies ==
    (Planned /\ last.fresh /\ WellFormed(last.features)) =>
        /\ IdsOf(last.features) \subseteq IdsInLevels(last.levels)
        /\ \A i, j \in DOMAIN last.levels :
             \A t \in Range(last.levels[i]), d \in Range(last.levels[j]) :
                d \in DepsOf(last.features, t) => i > j

\* a well-formed list whose levels are a chain of three
C1_Witness ==
    /\ Planned /\ last.fresh /\ WellFormed(last.features)
    /\ Len(last.levels) = 3
    /\ \E t \in IdsOf(last.features) : DepsOf(last.features, t) # {}

\* C2: a task list with a dependency cycle makes create_parallel_tracks report
\* CycleDetected; it returns no plan whose tracks omit the tasks of the cycle.
C2_CycleIsReported ==
    (Planned /\ last.fresh /\ KnownDeps(last.features) /\ ~Acyclic(last.features)) =>
        /\ last.error = "CycleDetected"
        /\ \/ last.tracks = <<>>
           \/ OnCycle(last.features) \subseteq IdsInTracks(last.tracks)

\* C3: a dependency id that names no task of the list makes planning fail with
\* UnknownDependency; no tracks, allocation or steps are produced and the unknown
\* id is not in the critical path.
C3_UnknownDependencyIsReported ==
    (Planned /\ last.fresh /\ ~KnownDeps(last.features)) =>
        /\ last.error = "UnknownDependency"
        /\ last.tracks = <<>>
        /\ last.resource_allocation = <<>>
        /\ last.execution_plan = <<>>
        /\ Range(last.analysis.critical_path) \subseteq IdsOf(last.features)

\* C4: the processes of all tracks sum to at most max_processes minus the reserve
\* (stated for the capacities that leave a non-negative pool).
C4_AllocationWithinCapacity ==
    (Planned /\ last.max_processes >= Reserve) =>
        SumProcesses(last.resource_allocation, Len(last.resource_allocation))
            <= last.max_processes - Reserve

\* C5: every track is allocated a positive multiple of the team size, teams is
\* processes divided by the team size, so teams >= 1, also in the step of the
\* track, whose duration divides by teams: the call never fails on that division.
C5_WholeTeams ==
    Planned =>
        /\ last.error = "none"
        /\ Len(last.resource_allocation) = Len(last.tracks)
        /\ \A i \in DOMAIN last.resource_allocation :
             LET a == last.resource_allocation[i]
             IN /\ a.processes > 0
                /\ a.processes % AgentsPerTeam = 0
                /\ a.teams * AgentsPerTeam = a.processes
                /\ a.teams >= 1
                /\ last.execution_plan[i].teams = a.teams

\* max_processes below the reserve, and a track raised to the one-team minimum
C5_Witness ==
    /\ Planned
    /\ last.max_processes < Reserve
    /\ Len(last.resource_allocation) >= 2
    /\ \E i \in DOMAIN last.resource_allocation :
         last.resource_allocation[i].processes = AgentsPerTeam

\* C6: on a new planner, for an acyclic task list with known dependencies, the
\* critical path is a dependency chain without repeated ids, and no dependency
\* chain of the list has more nodes.
C6_CriticalPathIsLongestChain ==
    (Planned /\ last.fresh /\ WellFormed(last.features)) =>
        LET path == last.analysis.critical_path
        IN /\ Range(path) \subseteq IdsOf(last.features)
           /\ IsChain(last.features, path)
           /\ NoRepeat(path)
           /\ \A chain \in Chains(last.features) : Len(chain) <= Len(path)

\* a list with chains of different lengths whose longest chain has three nodes
C6_Witness ==
    /\ Planned /\ last.fresh /\ WellFormed(last.features)
    /\ Len(last.analysis.critical_path) = 3
    /\ last.analysis.critical_path[1] # last.features[1].id

\* C8: estimated_duration is the sum of the durations of the sequential steps plus
\* the largest duration of the parallel steps of the execution plan.
C8_DurationMatchesPlan ==
    Planned =>
        last.estimated_duration =
            FracAdd(SequentialSum(last.execution_plan, Len(last.execution_plan)),
                    ParallelMax(last.execution_plan, Len(last.execution_plan)))

\* C9: the steps follow the levels, are numbered 1..n, and each starts at the sum
\* of the durations of the sequential steps before it; a parallel step leaves the
\* start time of the next step where its own is.
C9_StartTimes ==
    Planned =>
        LET plan == last.execution_plan
        IN /\ Len(plan) = Len(last.levels)
           /\ \A i \in DOMAIN plan :
                /\ plan[i].step = i
                /\ plan[i].features = last.levels[i]
                /\ plan[i].start_time = SequentialSum(plan, i - 1)
                /\ (i > 1 /\ plan[i - 1].can_parallel)
                      => plan[i].start_time = plan[i - 1].start_time

\* a parallel step of non-zero duration with a step after it
C9_Witness ==
    /\ Planned
    /\ Len(last.execution_plan) >= 2
    /\ last.execution_plan[1].can_parallel
    /\ last.execution_plan[1].duration # Zero

\* the indices of the tasks of a list with an empty dependency list
Independent(features) == { i \in DOMAIN features : features[i].dependencies = <<>> }

\* C11: parallelism_score is the number of tasks without dependencies divided by
\* the number of tasks (0 for the empty list) and lies in [0,1]; every task is in
\* exactly one of independent_features (no dependencies) and dependent_features.
C11_ParallelismScore ==
    Planned =>
        LET features == last.features
            analysis == last.analysis
            independent == { features[i].id : i \in Independent(features) }
            dependent == { features[i].id : i \in DOMAIN features \ Independent(features) }
        IN /\ analysis.parallelism_score =
                 (IF Len(features) = 0 THEN Zero
                  ELSE Frac(Cardinality(Independent(features)), Len(features)))
           /\ ~FracLess(analysis.parallelism_score, Zero)
           /\ ~FracLess(One, analysis.parallelism_score)
           /\ Range(analysis.independent_features) = independent
           /\ Range(analysis.dependent_features) = dependent
           /\ Len(analysis.independent_features) + Len(analysis.dependent_features)
                 = Len(features)

\* three tasks of which one has no dependencies
C11_Witness ==
    /\ Planned
    /\ Len(last.features) = 3
    /\ last.analysis.parallelism_score = Frac(1, 3)
    /\ Len(last.analysis.dependent_features) = 2

\* C12: there is one track per level, in level order; its level field is the
\* index of the level and its features are the tasks of the level; it is
\* sequential (can_parallel false) exactly when the level holds one task, parallel
\* otherwise; the track ids are pairwise distinct.
C12_OneTrackPerLevel ==
    Planned =>
        LET tracks == last.tracks
        IN /\ Len(tracks) = Len(last.levels)
           /\ \A i \in DOMAIN tracks :
                /\ tracks[i].level = i - 1
                /\ tracks[i].features = last.levels[i]
                /\ tracks[i].can_parallel = (Len(last.levels[i]) # 1)
                /\ tracks[i].type =
                      (IF Len(last.levels[i]) = 1 THEN "sequential" ELSE "parallel")
           /\ \A i, j \in DOMAIN tracks : i # j => tracks[i].id # tracks[j].id

\* a parallel track of two tasks followed by a sequential track
C12_Witness ==
    /\ Planned
    /\ Len(last.tracks) = 2
    /\ Len(last.tracks[1].features) = 2 /\ last.tracks[1].can_parallel
    /\ Len(last.tracks[2].features) = 1 /\ ~last.tracks[2].can_parallel

\* C20: the steps respect the dependencies in time: the step holding a task has a
\* higher number than the step holding a dependency of it and starts no earlier
\* than that step ends (stated on a new planner, for acyclic lists with known
\* dependencies).
C20_StepsRespectDependencies ==
    (Planned /\ last.fresh /\ WellFormed(last.features)) =>
        LET plan == last.execution_plan
        IN \A i, j \in DOMAIN plan :
             \A t \in Range(plan[i].features), d \in Range(plan[j].features) :
                d \in DepsOf(last.features, t) =>
                    /\ plan[i].step > plan[j].step
                    /\ ~FracLess(plan[i].start_time,
                                 FracAdd(plan[j].start_time, plan[j].duration))

----------------------------------------------------------------------------
(* Properties of the sample run (SpecSample) *)

\* C14: the eight sample features on a new planner with max_processes 1000 have
\* the levels {auth, analytics, seo, roulette}, {profile, payments} and
\* {dashboard, social}, the parallelism_score 0.5 and a critical path of 3 tasks,
\* in whatever order the features after the first are listed.
C14_SampleRun ==
    (Planned /\ last.fresh /\ last.max_processes = 1000
        /\ Range(last.features) = Range(SampleFeatures)) =>
        /\ Len(last.levels) = 3
        /\ Range(last.levels[1]) = {"auth", "analytics", "seo", "roulette"}
        /\ Range(last.levels[2]) = {"profile", "payments"}
        /\ Range(last.levels[3]) = {"dashboard", "social"}
        /\ Len(last.levels[1]) = 4 /\ Len(last.levels[2]) = 2 /\ Len(last.levels[3]) = 2
        /\ last.analysis.parallelism_score = Frac(1, 2)
        /\ Len(last.analysis.critical_path) = 3

\* the sample features in the order of the sample run
C14_Witness ==
    /\ Planned /\ last.fresh /\ last.max_processes = 1000
    /\ last.features = SampleFeatures
    /\ last.levels = << <<"auth", "analytics", "seo", "roulette">>,
                        <<"profile", "payments">>, <<"dashboard", "social">> >>

----------------------------------------------------------------------------
(* Properties of monitoring (SpecMonitor, SpecMonitorPlan) *)

\* the completion rate and the elapsed time a track status counts with
RateOf(track_status) ==
    IF track_status.has_completion_rate THEN track_status.completion_rate ELSE Zero
ElapsedOf(track_status) ==
    IF track_status.has_elapsed_time THEN track_status.elapsed_time ELSE 0

RECURSIVE SumRates(_, _)
SumRates(tracks, n) ==
    IF n = 0 THEN Zero ELSE FracAdd(SumRates(tracks, n - 1), RateOf(tracks[n]))

C18_MonitorIsReadOnly ==
    (/\ Planned
     /\ prev.op = "create_parallel_tracks"
     /\ prev.live
     /\ prev.monitored) =>
        /\ last.error = prev.error
        /\ last.analysis = prev.analysis
        /\ last.levels = prev.levels
        /\ last.tracks = prev.tracks
        /\ last.resource_allocation = prev.resource_allocation
        /\ last.execution_plan = prev.execution_plan
        /\ last.estimated_duration = prev.estimated_duration
        /\ monitoring.called /\ monitoring.status \in PlanSprintStatuses

\* a plan over two tasks, a monitoring call that reports a bottleneck, the plan again
C18_Witness ==
    /\ Planned
    /\ prev.op = "create_parallel_tracks"
    /\ prev.live
    /\ prev.monitored
    /\ ~last.monitored
    /\ Len(last.levels[1]) = 2
    /\ monitoring.bottlenecks # <<>>

----------------------------------------------------------------------------
(* Properties of the orchestrator (SpecOrchestrate) *)

\* the projects that passed the check and have not yet taken their agents
PassedNotReserved ==
    { p \in UNION { { projects[c][i] : i \in DOMAIN projects[c] } : c \in DOMAIN projects } :
        async_tasks[p.id] = "created" }

RECURSIVE SumChecked(_)
SumChecked(S) ==
    IF S = {} THEN 0
    ELSE LET project == CHOOSE x \in S : TRUE
         IN CheckedAgents(project) + SumChecked(S \ {project})

\* C16: the check of a project and the reservation for it are one transaction, so
\* the projects that have passed the check without holding their agents yet never
\* ask together for more agents than are free: no two projects pass the check
\* against the same free capacity.
C16_CheckAndReserveAtomic ==
    SumChecked(PassedNotReserved) <= Cardinality(agent_pool.available_agents)

----------------------------------------------------------------------------
(* Properties of one optimization (SpecOptimize) *)

Optimized == last.op = "optimize_sprint" /\ last.optimized

\* the sub-features of the optimized list that replace the feature
SubFeatures(feature, optimized_features) ==
    SelectSeq(optimized_features,
              LAMBDA g : \E k \in 0..(SplitCount - 1) :
                            g.id = feature.id \o "_" \o ToString(k))

RECURSIVE SumEffort(_, _)
SumEffort(features, n) ==
    IF n = 0 THEN 0 ELSE SumEffort(features, n - 1) + features[n].effort

\* C13: when optimize_sprint replaces the high-complexity features without
\* dependencies by their sub-features, the parallelism_score of the optimized list
\* is at least the parallelism_score of the original list.
C13_SplitKeepsParallelism ==
    Optimized =>
        ~FracLess(last.analysis.parallelism_score,
                  last.current_analysis.parallelism_score)

\* a feature was split and the score of the optimized list is strictly greater
C13_Witness ==
    /\ Optimized
    /\ last.improvements # <<>>
    /\ Len(last.features) = 3
    /\ FracLess(last.current_analysis.parallelism_score,
                last.analysis.parallelism_score)

\* C19: the sub-features that replace a split feature all have the same effort,
\* their efforts sum to the effort of the feature, each has a lower complexity
\* than the feature and no dependencies.
C19_EffortRedistributed ==
    Optimized =>
        \A i \in DOMAIN last.features :
            IsSplit(last.features[i]) =>
                LET feature == last.features[i]
                    subs == SubFeatures(feature, last.optimized_features)
                IN /\ subs # <<>>
                   /\ \A k \in DOMAIN subs :
                        /\ subs[k].effort = subs[1].effort
                        /\ Weight(subs[k].complexity) < Weight(feature.complexity)
                        /\ subs[k].dependencies = <<>>
                   /\ SumEffort(subs, Len(subs)) = feature.effort

----------------------------------------------------------------------------
(* Properties of sequences of calls (Spec) *)

\* C7: the ids in the tracks, the allocation, the steps and the critical path that
\* a call returns are ids of the task list the call planned over: its argument,
\* or for optimize_sprint the optimized list (stated for lists whose dependencies
\* all name tasks of the list).
C7_PlanOverOwnTasksOnly ==
    LET planned == IF last.op = "optimize_sprint"
                   THEN last.optimized_features ELSE last.features
    IN (last.op # "none" /\ KnownDeps(last.features)) =>
        /\ IdsInTracks(last.tracks) \subseteq IdsOf(planned)
        /\ IdsInTracks(last.resource_allocation) \subseteq IdsOf(planned)
        /\ IdsInTracks(last.execution_plan) \subseteq IdsOf(planned)
        /\ Range(last.analysis.critical_path) \subseteq IdsOf(planned)
        /\ Range(last.current_analysis.critical_path) \subseteq IdsOf(last.features)

\* C15: create_parallel_tracks with an empty task list raises no error and returns
\* an empty plan: no tracks, no allocation, no steps, estimated_duration 0, an
\* empty critical path and the parallelism_score 0.
C15_EmptyListEmptyPlan ==
    (Planned /\ last.features = <<>>) =>
        /\ last.error = "none"
        /\ last.tracks = <<>>
        /\ last.resource_allocation = <<>>
        /\ last.execution_plan = <<>>
        /\ last.estimated_duration = Zero
        /\ last.analysis.critical_path = <<>>
        /\ last.analysis.parallelism_score = Zero

\* C10: create_parallel_tracks run twice in a row on the same task list, on one
\* planner or on two new planners with the same max_processes, returns the same
\* levels, the same tracks and the same critical path.
C10_RerunIsIdentical ==
    (/\ Planned
     /\ prev.op = "create_parallel_tracks"
     /\ \/ prev.live
        \/ prev.fresh /\ last.fresh /\ prev.max_processes = last.max_processes) =>
        /\ last.levels = prev.levels
        /\ last.tracks = prev.tracks
        /\ last.analysis.critical_path = prev.analysis.critical_path

\* the second of two runs on one planner, over a list with a dependency
C10_Witness ==
    /\ Planned
    /\ prev.op = "create_parallel_tracks"
    /\ prev.live
    /\ prev.fresh
    /\ Len(last.levels) = 2

----------------------------------------------------------------------------
(* Properties of the levels of one planning run (SpecLevels) *)

\* the dependency chains that lead from the task t down to a task without
\* dependencies
RootChains(features, t) ==
    { path \in Chains(features) :
        /\ path # <<>>
        /\ path[1] = t
        /\ DepsOf(features, path[Len(path)]) = {} }

\* the number of edges of the shortest and of the longest of these chains
ShortestChain(features, t) ==
    CHOOSE n \in 0..Len(features) :
        /\ \E path \in RootChains(features, t) : Len(path) - 1 = n
        /\ \A path \in RootChains(features, t) : Len(path) - 1 >= n

LongestChain(features, t) ==
    CHOOSE n \in 0..Len(features) :
        /\ \E path \in RootChains(features, t) : Len(path) - 1 = n
        /\ \A path \in RootChains(features, t) : Len(path) - 1 <= n

\* the task t is held by the level of index k (the first level has index 0)
AtLevel(levels, t, k) ==
    /\ k + 1 \in DOMAIN levels
    /\ t \in Range(levels[k + 1])

\* C21, as stated: the index of the level of every task of an acyclic task list
\* is the number of edges of the shortest dependency chain from a task without
\* dependencies to it.
C21_LevelIsShortestChain ==
    (Planned /\ last.fresh /\ WellFormed(last.features)) =>
        \A t \in IdsOf(last.features) :
            AtLevel(last.levels, t, ShortestChain(last.features, t))

\* C21, amended: on a new planner, the index of the level of every task of an
\* acyclic task list with known dependencies is the number of edges of the
\* longest dependency chain from a task without dependencies to it.
C21_LevelIsLongestChain ==
    (Planned /\ last.fresh /\ WellFormed(last.features)) =>
        \A t \in IdsOf(last.features) :
            AtLevel(last.levels, t, LongestChain(last.features, t))

\* a task reached from a task without dependencies by a chain of one edge and by
\* a chain of two, held by the level of index 2
C21_Witness ==
    /\ Planned /\ last.fresh /\ WellFormed(last.features)
    /\ \E t \in IdsOf(last.features) :
         /\ ShortestChain(last.features, t) = 1
         /\ LongestChain(last.features, t) = 2
         /\ AtLevel(last.levels, t, 2)

\* the ids of the tasks without dependencies, in the order of the list
RootsInOrder(features) ==
    LET roots == SelectSeq(features, LAMBDA f : f.dependencies = <<>>)
    IN [i \in DOMAIN roots |-> roots[i].id]

\* C22: on a new planner, for an acyclic task list with known dependencies, level
\* 0 holds exactly the tasks without dependencies, in input order, and every task
\* of a level k > 0 has a dependency at level k-1 and none at level k or later.
C22_LevelsByDeepestDependency ==
    (Planned /\ last.fresh /\ WellFormed(last.features)) =>
        /\ last.features # <<>> =>
             /\ last.levels # <<>>
             /\ last.levels[1] = RootsInOrder(last.features)
        /\ \A k \in 2..Len(last.levels) :
             \A t \in Range(last.levels[k]) :
                /\ \E d \in DepsOf(last.features, t) : d \in Range(last.levels[k - 1])
                /\ \A d \in DepsOf(last.features, t) :
                      \E j \in 1..(k - 1) : d \in Range(last.levels[j])

\* two tasks without dependencies at level 0 and a task depending on both at level 1
C22_Witness ==
    /\ Planned /\ last.fresh /\ WellFormed(last.features)
    /\ Len(last.levels) = 2
    /\ Len(last.levels[1]) = 2
    /\ \E t \in Range(last.levels[2]) :
         DepsOf(last.features, t) = Range(last.levels[1])

\* how often the id t is held by the tracks
RECURSIVE Occurrences(_, _, _)
Occurrences(tracks, t, n) ==
    IF n = 0 THEN 0
    ELSE Occurrences(tracks, t, n - 1)
         + Len(SelectSeq(tracks[n].features, LAMBDA x : x = t))

\* C24: on a new planner, for an acyclic task list with known dependencies, the
\* tracks hold every task of the list exactly once, also a task that lists one
\* dependency more than once, and hold no id that is not a task of the list.
C24_TracksPartitionTasks ==
    (Planned /\ last.fresh /\ WellFormed(last.features)) =>
        /\ \A t \in IdsOf(last.features) :
              Occurrences(last.tracks, t, Len(last.tracks)) = 1
        /\ IdsInTracks(last.tracks) \subseteq IdsOf(last.features)

\* a task that lists the same dependency twice, held by the second track
C24_Witness ==
    /\ Planned /\ last.fresh /\ WellFormed(last.features)
    /\ Len(last.tracks) = 2
    /\ \E i \in DOMAIN last.features :
         LET deps == last.features[i].dependencies
         IN /\ Len(deps) = 2
            /\ deps[1] = deps[2]
            /\ last.features[i].id \in Range(last.tracks[2].features)

\* C25: on a new planner, for an acyclic non-empty task list with known
\* dependencies, there are as many levels, tracks and steps as the critical path
\* has tasks, and the critical path holds exactly one task of each level.
C25_CriticalPathSpansLevels ==
    (Planned /\ last.fresh /\ WellFormed(last.features) /\ last.features # <<>>) =>
        LET path == last.analysis.critical_path
        IN /\ Len(last.levels) = Len(path)
           /\ Len(last.tracks) = Len(path)
           /\ Len(last.execution_plan) = Len(path)
           /\ \A k \in DOMAIN last.levels :
                 Cardinality({ i \in DOMAIN path : path[i] \in Range(last.levels[k]) }) = 1

\* three levels, where the critical path starts at a task whose first dependency
\* is one level down the shorter way
C25_Witness ==
    /\ Planned /\ last.fresh /\ WellFormed(last.features)
    /\ Len(last.levels) = 3
    /\ Len(last.analysis.critical_path) = 3
    /\ \E i \in DOMAIN last.features :
         /\ last.features[i].id = last.analysis.critical_path[1]
         /\ Len(last.features[i].dependencies) = 2
         /\ last.features[i].dependencies[1] = last.analysis.critical_path[3]

----------------------------------------------------------------------------
(* Properties of the allocation (SpecAllocate) *)

\* ten times the weighted demand of the tasks `ids` of the list: the sum of
\* weight (low 1, medium 2, high 3) times multiplier (low 0.8, medium 1.0, high 1.5)
RECURSIVE Demand10(_, _, _)
Demand10(features, ids, n) ==
    IF n = 0 THEN 0
    ELSE Demand10(features, ids, n - 1)
         + (IF features[n].id \in ids
            THEN (CASE features[n].complexity = "low" -> 1
                    [] features[n].complexity = "medium" -> 2
                    [] features[n].complexity = "high" -> 3)
                 * (CASE features[n].priority = "low" -> 8
                      [] features[n].priority = "medium" -> 10
                      [] features[n].priority = "high" -> 15)
            ELSE 0)

\* C23: every track's weighted demand is the sum of weight times multiplier over
\* its tasks; its processes are the largest multiple of 16 not exceeding
\* demand / total demand * (max_processes - 100), or 16 where that share is below
\* 16; so a track of larger demand never gets fewer processes than one of smaller.
C23_ProportionalAllocation ==
    Planned =>
        LET allocation == last.resource_allocation
            demand(i) == Demand10(last.features, Range(allocation[i].features),
                                  Len(last.features))
            total == Demand10(last.features, IdsInTracks(last.tracks),
                              Len(last.features))
            available == last.max_processes - 100
        IN /\ \A i \in DOMAIN allocation :
                /\ allocation[i].complexity10 = demand(i)
                /\ IF demand(i) * available < 16 * total
                   THEN allocation[i].processes = 16
                   ELSE /\ allocation[i].processes % 16 = 0
                        /\ allocation[i].processes * total <= demand(i) * available
                        /\ demand(i) * available < (allocation[i].processes + 16) * total
           /\ \A i, j \in DOMAIN allocation :
                demand(i) > demand(j) =>
                    allocation[i].processes >= allocation[j].processes

----------------------------------------------------------------------------
(* Properties of the agent pool (SpecOrchestrate) *)

\* the running projects that hold the agent
HoldersOf(a) ==
    { id \in DOMAIN async_tasks :
        async_tasks[id] = "running" /\ a \in Range(assigned_agents[id]) }

\* C26: whatever the interleaving of the assignments and the releases of the
\* projects processed at once, the pool is a partition of the agents: no agent
\* is both available and busy, available and busy agents together are the
\* total_agents agents of the pool, and a busy agent is busy for one project,
\* the one running project it was assigned to.
C26_PoolIsPartition ==
    /\ agent_pool.available_agents \cap DOMAIN agent_pool.busy_agents = {}
    /\ agent_pool.available_agents \cup DOMAIN agent_pool.busy_agents = AgentIds
    /\ Cardinality(agent_pool.available_agents)
         + Cardinality(DOMAIN agent_pool.busy_agents) = PoolSize
    /\ \A a \in DOMAIN agent_pool.busy_agents :
          HoldersOf(a) = { agent_pool.busy_agents[a] }

\* one project has released its agents while another one still holds its own
C26_Witness ==
    /\ "p2" \in DOMAIN async_tasks
    /\ async_tasks["p1"] = "finished"
    /\ assigned_agents["p1"] # <<>>
    /\ async_tasks["p2"] = "running"
    /\ Len(assigned_agents["p2"]) = 2
    /\ Cardinality(agent_pool.available_agents) = 1

\* C27: the step in which _process_project ends for a project, with a success
\* or with a failure, leaves every agent assigned to the project available, no
\* busy_agents entry for the project, and the project out of active_projects.
C27_FinishReleasesProject ==
    [][\A id \in DOMAIN async_tasks :
          (async_tasks[id] = "running" /\ async_tasks'[id] = "finished")
          => /\ Range(assigned_agents[id]) \subseteq agent_pool'.available_agents
             /\ \A a \in DOMAIN agent_pool'.busy_agents : agent_pool'.busy_agents[a] # id
             /\ id \notin active_projects']_vars

\* a project that held two agents has failed and its agents are available
\* again, while the other project is still running
C27_Witness ==
    /\ "p2" \in DOMAIN async_tasks
    /\ async_tasks["p1"] = "finished"
    /\ project_status["p1"] = "failed"
    /\ Len(assigned_agents["p1"]) = 2
    /\ Range(assigned_agents["p1"]) \subseteq agent_pool.available_agents
    /\ async_tasks["p2"] = "running"
    /\ "p1" \notin active_projects

----------------------------------------------------------------------------
(* Properties of the results (SpecOrchestrate) *)

\* C28: in every batch, also in one with projects skipped by the check, the
\* result stored under the id of a project in results['projects'] is the result
\* _process_project produced for that project.
C28_ResultsKeyedByOwnProject ==
    \A c \in DOMAIN results : \A id \in DOMAIN results[c] :
        results[c][id] = ProcessResult(id) /\ async_tasks[id] = "finished"

\* C29: every project given to orchestrate_projects is processed, a project
\* skipped by the check at a later time, so that when the call returns
\* results['projects'] has an entry for each of its projects.
C29_EveryProjectProcessed ==
    \A c \in DOMAIN loop :
        loop[c].phase = "done"
        => \A i \in DOMAIN projects[c] :
              /\ projects[c][i].id \in DOMAIN results[c]
              /\ project_status[projects[c][i].id] \in {"completed", "failed"}

----------------------------------------------------------------------------
(* Properties of concurrent calls (SpecConcurrent) *)

\* C30: whatever the interleaving of the orchestrate_projects calls made on one
\* orchestrator, active_projects never holds more than max_concurrent_projects
\* projects.
C30_ActiveProjectsCapped ==
    Cardinality(active_projects) <= MaxConcurrentProjects

====
